---- MODULE Spec2Model ----
(***************************************************************************)
(* writerator: a command-line text analyser and poem generator.            *)
(*                                                                         *)
(* The module models src/writerator.py (the command dispatch get_output,   *)
(* the output formatters and the two output destinations) together with    *)
(* the Text engine it imports from texttools.  texttools is not part of    *)
(* the source tree, so the engine (tokenizer, ranker, scorer, syllable     *)
(* estimator, poem generator) is modelled from the specification.          *)
(*                                                                         *)
(* A Python str is a sequence of one-character strings.  An entry of an    *)
(* output list is a record [type, val] carrying the Python type of the     *)
(* object ("str", "int" or "float").                                       *)
(***************************************************************************)
EXTENDS Integers, Sequences, FiniteSets, TLC

VARIABLES
    args,          \* the argparse namespace handed to get_output
    text,          \* raw content of the loaded Text
    pc,            \* position in main(): "get_output", "output", "done"
    outcome,       \* how the last step ended
    failure,       \* kind of the engine failure or Python exception, "" if none
    output_lines,  \* the value returned by get_output
    calls,         \* the Text operations get_output has invoked, in order
    rank_list,     \* the ranking last returned by the Ranker
    considered,    \* indices of rank_list read by generate_ranked_list_output
    poems,         \* the poems last returned by the Generator
    console,       \* objects handed to print(), in order
    file           \* strings written to the output file, in order

vars == <<args, text, pc, outcome, failure, output_lines, calls, rank_list,
          considered, poems, console, file>>

(***************************************************************************)
(* Bounds of the model.                                                    *)
(***************************************************************************)
MaxRankLen == 3      \* longest rank list drawn for the formatter
MaxShow == 4         \* largest show-count (N) drawn
MaxPoems == 2        \* largest number of poems drawn for the Generator
MaxTextLen == 5      \* longest raw text drawn for the Ranker
MaxPoemWords == 2    \* most words in a text drawn for the Generator
MaxSyllables == 2    \* largest syllable target drawn
MaxLines == 2        \* longest syllable pattern drawn

(***************************************************************************)
(* Generic helpers.                                                        *)
(***************************************************************************)
Min(a, b) == IF a < b THEN a ELSE b

Range(s) == {s[i] : i \in 1..Len(s)}

RECURSIVE SeqsUpTo(_, _)
SeqsUpTo(S, n) ==
    IF n <= 0 THEN {<<>>}
    ELSE LET shorter == SeqsUpTo(S, n - 1)
         IN  shorter \cup {Append(s, x) : s \in {t \in shorter : Len(t) = n - 1}, x \in S}

RECURSIVE SumSeq(_)
SumSeq(s) == IF s = <<>> THEN 0 ELSE Head(s) + SumSeq(Tail(s))

(***************************************************************************)
(* Python values.                                                          *)
(***************************************************************************)
Digits == <<"0", "1", "2", "3", "4", "5", "6", "7", "8", "9">>

RECURSIVE str_nat(_)
str_nat(n) ==
    IF n < 10 THEN <<Digits[n + 1]>>
    ELSE str_nat(n \div 10) \o <<Digits[(n % 10) + 1]>>

\* str(n) for an int
str_int(n) == IF n < 0 THEN <<"-">> \o str_nat(0 - n) ELSE str_nat(n)

PyStr(s) == [type |-> "str", val |-> s]
PyInt(n) == [type |-> "int", val |-> n]
PyFloat(num, den) == [type |-> "float", val |-> <<num, den>>]

NL == <<"\n">>

(***************************************************************************)
(* generate_ranked_list_output (writerator.py 312-329).                    *)
(* A rank list is a sequence of pairs <<element, count>>.                  *)
(***************************************************************************)
\* variant: the show-count is used without the bound by the list's length
get_last_index_for_output_unclamped(ranked_elements, number_to_display) ==
    number_to_display

get_last_index_for_output(ranked_elements, number_to_display) ==
    IF Len(ranked_elements) < number_to_display
    THEN Len(ranked_elements)
    ELSE number_to_display

\* the line appended for one entry: str(count) + ": " + str(element) + "\n"
ranked_line(element, count) ==
    PyStr(str_int(count) \o <<":", " ">> \o element \o NL)

\* variant: the test on the count is missing
keeps_every_entry(count) == TRUE

\* the test guarding the append: if count != 0
keeps_entry(count) == count # 0

\* variant: the line is inserted at the front
prepend_line(lines, line) == <<line>> \o lines

\* output_lines.append(line)
append_line(lines, line) == Append(lines, line)

\* the for loop over range(0, last_index); i is the 0-based loop index.
\* Reading rank_list[i] past the end raises IndexError.
RECURSIVE ranked_loop(_, _, _, _, _)
ranked_loop(rank_list_, i, last_index, lines, seen) ==
    IF i >= last_index
    THEN [ok |-> TRUE, lines |-> lines, considered |-> seen]
    ELSE IF i + 1 > Len(rank_list_)
    THEN [ok |-> FALSE, lines |-> lines, considered |-> seen]
    ELSE LET element == rank_list_[i + 1][1]
             count   == rank_list_[i + 1][2]
         IN  ranked_loop(rank_list_, i + 1, last_index,
                         IF keeps_entry(count)
                         THEN append_line(lines, ranked_line(element, count))
                         ELSE lines,
                         Append(seen, i + 1))

generate_ranked_list_output(rank_list_, number_to_show) ==
    ranked_loop(rank_list_, 0,
                get_last_index_for_output(rank_list_, number_to_show),
                <<>>, <<>>)

(***************************************************************************)
(* The Text engine (texttools.Text), modelled from the specification.      *)
(* Every engine operation returns [ok, val, err]: ok = FALSE is the typed  *)
(* failure result of section 7, err its kind.                              *)
(***************************************************************************)
LowerCase == <<"a", "b", "c", "d", "e", "f", "g", "h", "i", "j", "k", "l", "m",
               "n", "o", "p", "q", "r", "s", "t", "u", "v", "w", "x", "y", "z">>
UpperCase == <<"A", "B", "C", "D", "E", "F", "G", "H", "I", "J", "K", "L", "M",
               "N", "O", "P", "Q", "R", "S", "T", "U", "V", "W", "X", "Y", "Z">>
Vowels == {"a", "e", "i", "o", "u", "y"}
Terminals == {".", "!", "?"}
Whitespace == {" ", "\n", "\t"}

Lower(c) ==
    IF \E i \in 1..26 : UpperCase[i] = c
    THEN LowerCase[CHOOSE i \in 1..26 : UpperCase[i] = c]
    ELSE c

LowerStr(s) == [i \in 1..Len(s) |-> Lower(s[i])]

IsLetter(c) == \E i \in 1..26 : LowerCase[i] = Lower(c)

Ok(v) == [ok |-> TRUE, val |-> v, err |-> ""]
Fail(kind) == [ok |-> FALSE, val |-> <<>>, err |-> kind]

\* maximal runs of characters outside separators, empty runs included
RECURSIVE split_runs(_, _, _, _)
split_runs(s, separators, cur, acc) ==
    IF s = <<>> THEN Append(acc, cur)
    ELSE IF Head(s) \notin separators
    THEN split_runs(Tail(s), separators, Append(cur, Head(s)), acc)
    ELSE split_runs(Tail(s), separators, <<>>, Append(acc, cur))

NonEmpty(s) == s # <<>>

RECURSIVE lstrip(_)
lstrip(s) == IF s # <<>> /\ Head(s) \in Whitespace THEN lstrip(Tail(s)) ELSE s

RECURSIVE rstrip(_)
rstrip(s) ==
    IF s # <<>> /\ s[Len(s)] \in Whitespace
    THEN rstrip(SubSeq(s, 1, Len(s) - 1))
    ELSE s

strip(s) == rstrip(lstrip(s))

NonLetters(s) == {c \in Range(s) : ~IsLetter(c)}

\* section 4.1
tokenize(text_, element_type) ==
    IF element_type = "characters"
    THEN [i \in 1..Len(text_) |-> <<text_[i]>>]
    ELSE IF element_type = "words"
    THEN LET runs == SelectSeq(split_runs(text_, NonLetters(text_), <<>>, <<>>), NonEmpty)
         IN  [i \in 1..Len(runs) |-> LowerStr(runs[i])]
    ELSE LET frags == split_runs(text_, Terminals, <<>>, <<>>)
             trimmed == [i \in 1..Len(frags) |-> strip(frags[i])]
         IN  SelectSeq(trimmed, NonEmpty)

\* the distinct values of a token sequence, in order of first appearance
RECURSIVE distinct_values(_, _)
distinct_values(tokens, acc) ==
    IF tokens = <<>> THEN acc
    ELSE distinct_values(Tail(tokens),
                         IF Head(tokens) \in Range(acc) THEN acc
                         ELSE Append(acc, Head(tokens)))

\* variant: an occurrence at the first position is not counted
occurrences_after_first(value, tokens) ==
    Cardinality({i \in 2..Len(tokens) : tokens[i] = value})

occurrences(value, tokens) == Cardinality({i \in 1..Len(tokens) : tokens[i] = value})

\* a pair goes before the first entry with a strictly smaller count
RECURSIVE insert_ranked(_, _)
insert_ranked(sorted, pair) ==
    IF sorted = <<>> THEN <<pair>>
    ELSE IF Head(sorted)[2] < pair[2] THEN <<pair>> \o sorted
    ELSE <<Head(sorted)>> \o insert_ranked(Tail(sorted), pair)

\* stable sort by count, descending
RECURSIVE sort_ranked(_, _)
sort_ranked(pairs, sorted) ==
    IF pairs = <<>> THEN sorted
    ELSE sort_ranked(Tail(pairs), insert_ranked(sorted, Head(pairs)))

\* section 4.2 rankByTotalCount
rank_by_total_count(text_, element_type) ==
    LET tokens == tokenize(text_, element_type)
        values == distinct_values(tokens, <<>>)
        pairs  == [i \in 1..Len(values) |-> <<values[i], occurrences(values[i], tokens)>>]
    IN  IF tokens = <<>> THEN Fail("EmptyInputError")
        ELSE Ok(sort_ranked(pairs, <<>>))

IsPrefix(p, s) == Len(p) <= Len(s) /\ SubSeq(s, 1, Len(p)) = p

\* non-overlapping occurrences of the non-empty pattern p in s, left to right
RECURSIVE count_substring(_, _)
count_substring(p, s) ==
    IF Len(s) < Len(p) THEN 0
    ELSE IF IsPrefix(p, s)
    THEN 1 + count_substring(p, SubSeq(s, Len(p) + 1, Len(s)))
    ELSE count_substring(p, Tail(s))

\* hits of all patterns in one element instance
RECURSIVE match_hits(_, _)
match_hits(patterns, element) ==
    IF patterns = <<>> THEN 0
    ELSE count_substring(Head(patterns), element) + match_hits(Tail(patterns), element)

\* section 4.2 rankByMatchCount
rank_by_number_of_matches(text_, patterns, element_type) ==
    LET tokens == tokenize(text_, element_type)
        values == distinct_values(tokens, <<>>)
        hits(v) == SumSeq([i \in 1..Len(tokens) |->
                              IF tokens[i] = v THEN match_hits(patterns, v) ELSE 0])
        pairs  == [i \in 1..Len(values) |-> <<values[i], hits(values[i])>>]
    IN  IF tokens = <<>> THEN Fail("EmptyInputError")
        ELSE Ok(sort_ranked(pairs, <<>>))

\* section 4.2 countOccurrences
count_occurences(text_, value, element_type) ==
    LET tokens == tokenize(text_, element_type)
        wanted == IF element_type = "words" THEN LowerStr(value) ELSE value
    IN  IF tokens = <<>> THEN Fail("EmptyInputError")
        ELSE Ok(occurrences(wanted, tokens))

\* number of maximal runs of vowels in a lower-case word
RECURSIVE vowel_runs(_, _)
vowel_runs(w, in_run) ==
    IF w = <<>> THEN 0
    ELSE IF Head(w) \in Vowels
    THEN (IF in_run THEN 0 ELSE 1) + vowel_runs(Tail(w), TRUE)
    ELSE vowel_runs(Tail(w), FALSE)

\* section 4.4 estimateSyllables
estimate_syllables(word) ==
    LET w == LowerStr(word)
        n == Len(w)
        nuclei == vowel_runs(w, FALSE)
        trailing_e == n >= 2 /\ w[n] = "e" /\ w[n - 1] \notin Vowels
        le_ending == n >= 3 /\ w[n] = "e" /\ w[n - 1] = "l" /\ w[n - 2] \notin Vowels
        adjusted == IF trailing_e /\ ~le_ending THEN nuclei - 1 ELSE nuclei
    IN  IF adjusted < 1 THEN 1 ELSE adjusted

\* section 4.3 Gunning-Fog index 0.4 * (W/S + 100 * C/W), as the exact
\* fraction <<numerator, denominator>>
calculate_Gunning_Fog_Index(text_) ==
    LET words == tokenize(text_, "words")
        W == Len(words)
        S == Len(tokenize(text_, "sentences"))
        C == Cardinality({i \in 1..W : estimate_syllables(words[i]) >= 3})
    IN  IF W = 0 \/ S = 0 THEN Fail("DivisionGuardError")
        ELSE Ok(PyFloat(4 * (W * W + 100 * C * S), 10 * S * W))

RECURSIVE join_words(_)
join_words(ws) ==
    IF ws = <<>> THEN <<>>
    ELSE IF Len(ws) = 1 THEN Head(ws)
    ELSE Head(ws) \o <<" ">> \o join_words(Tail(ws))

\* a fragment may be taken while it does not exceed what is left of the target
fits(syllables, remaining) == syllables <= remaining

\* variant: fragments are added until the target is reached or exceeded
RECURSIVE line_choices_overshoot(_, _)
line_choices_overshoot(vocabulary, target) ==
    IF target <= 0 THEN {<<>>}
    ELSE UNION {{<<w>> \o rest :
                    rest \in line_choices_overshoot(vocabulary,
                                                    target - estimate_syllables(w))} :
                w \in vocabulary}

\* every sequence of source words the generator can assemble for one target
RECURSIVE line_choices(_, _)
line_choices(vocabulary, target) ==
    IF target < 0 THEN {}
    ELSE IF target = 0 THEN {<<>>}
    ELSE UNION {{<<w>> \o rest :
                    rest \in line_choices(vocabulary, target - estimate_syllables(w))} :
                w \in {v \in vocabulary : fits(estimate_syllables(v), target)}}

\* every sequence that takes its i-th entry from sets[i]
RECURSIVE seq_product(_)
seq_product(sets) ==
    IF sets = <<>> THEN {<<>>}
    ELSE {<<x>> \o rest : x \in Head(sets), rest \in seq_product(Tail(sets))}

\* section 4.5 generatePoems: val is the set of results the random choices
\* can produce
generate_poems(text_, syllables_pattern, number_to_generate) ==
    LET vocabulary == Range(tokenize(text_, "words"))
        lines(t) == {join_words(ws) : ws \in line_choices(vocabulary, t)}
        one_poem == seq_product([i \in 1..Len(syllables_pattern) |->
                                    lines(syllables_pattern[i])])
    IN  IF vocabulary = {} THEN Fail("EmptyInputError")
        ELSE IF number_to_generate > 0 /\ one_poem = {}
        THEN Fail("UnsatisfiablePatternError")
        ELSE Ok(seq_product([k \in 1..number_to_generate |-> one_poem]))

(***************************************************************************)
(* The command-line layer (writerator.py).                                 *)
(*                                                                         *)
(* An optional argument is None (<<>>) or a value (<<v>>).  A step of      *)
(* get_output ends in a result record; outcome is                          *)
(*   "returned"       a list was returned,                                 *)
(*   "returned_none"  the function fell off its end and returned None,     *)
(*   "exit0"          sys.exit(0) was called,                              *)
(*   "raised"         a Python exception left the function,                *)
(*   "failed"         the engine reported a typed failure.                 *)
(***************************************************************************)
None == <<>>
Some(v) == <<v>>

Result(outcome_, failure_, lines, calls_, rank, seen, poems_) ==
    [outcome |-> outcome_, failure |-> failure_, output_lines |-> lines,
     calls |-> calls_, rank_list |-> rank, considered |-> seen, poems |-> poems_]

Call(op, pattern) == [op |-> op, pattern |-> pattern]

Exit0 == Result("exit0", "", <<>>, <<>>, <<>>, <<>>, <<>>)
ReturnNone == Result("returned_none", "", <<>>, <<>>, <<>>, <<>>, <<>>)
EngineFailure(kind, calls_) == Result("failed", kind, <<>>, calls_, <<>>, <<>>, <<>>)

\* expand_type (184-195): ok = FALSE is the sys.exit(0) of the else branch
expand_type(code) ==
    IF code = "c" THEN [ok |-> TRUE, val |-> "characters"]
    ELSE IF code = "w" THEN [ok |-> TRUE, val |-> "words"]
    ELSE IF code = "s" THEN [ok |-> TRUE, val |-> "sentences"]
    ELSE [ok |-> FALSE, val |-> ""]

\* get_repeat_syllable_pattern (205-210)
get_repeat_syllable_pattern(number_of_syllables, times_to_repeat) ==
    [i \in 1..times_to_repeat |-> number_of_syllables]

\* get_syllable_pattern (197-203)
get_syllable_pattern(name) ==
    IF name = "s" THEN get_repeat_syllable_pattern(10, 14)
    ELSE <<7, 5, 7>>

\* what the ranked-list formatter leaves behind, for either ranking command
ranked_output(ranked_elements, number_to_display, calls_) ==
    LET g == generate_ranked_list_output(ranked_elements, number_to_display)
    IN  Result(IF g.ok THEN "returned" ELSE "raised",
               IF g.ok THEN "" ELSE "IndexError",
               g.lines, calls_, ranked_elements, g.considered, <<>>)

\* get_totalcount_output (289-292)
get_totalcount_output(text_, element_type, number_to_display) ==
    LET r == rank_by_total_count(text_, element_type)
        c == <<Call("rank_by_total_count", <<>>)>>
    IN  IF r.ok THEN ranked_output(r.val, number_to_display, c)
        ELSE EngineFailure(r.err, c)

\* get_count_output (294-298): the count is appended as returned, an integer
get_count_output(text_, element_type, element_to_count) ==
    LET r == count_occurences(text_, element_to_count, element_type)
        c == <<Call("count_occurences", <<>>)>>
    IN  IF r.ok THEN Result("returned", "", <<PyInt(r.val)>>, c, <<>>, <<>>, <<>>)
        ELSE EngineFailure(r.err, c)

\* str.split("~")
RECURSIVE split_tilde(_, _, _)
split_tilde(s, cur, acc) ==
    IF s = <<>> THEN Append(acc, cur)
    ELSE IF Head(s) = "~" THEN split_tilde(Tail(s), <<>>, Append(acc, cur))
    ELSE split_tilde(Tail(s), Append(cur, Head(s)), acc)

\* get_match_output (300-310)
get_match_output(text_, element_type, elements_to_match, number_to_display) ==
    LET patterns == IF "~" \in Range(elements_to_match)
                    THEN split_tilde(elements_to_match, <<>>, <<>>)
                    ELSE <<elements_to_match>>
        r == rank_by_number_of_matches(text_, patterns, element_type)
        c == <<Call("rank_by_number_of_matches", <<>>)>>
    IN  IF r.ok THEN ranked_output(r.val, number_to_display, c)
        ELSE EngineFailure(r.err, c)

\* get_Gunning_output (331-332): the score is returned as it is, a float
get_Gunning_output(text_) ==
    LET r == calculate_Gunning_Fog_Index(text_)
        c == <<Call("calculate_Gunning_Fog_Index", <<>>)>>
    IN  IF r.ok THEN Result("returned", "", <<r.val>>, c, <<>>, <<>>, <<>>)
        ELSE EngineFailure(r.err, c)

\* get_readability_test_output (285-287)
get_readability_test_output(text_, test) ==
    IF test = "g" THEN get_Gunning_output(text_) ELSE ReturnNone

\* the separator appended after each poem
poem_separator == <<PyStr(NL)>>

\* variant: the separator is emitted before the poem
poem_lines_separator_first(poem) ==
    poem_separator \o [j \in 1..Len(poem) |-> PyStr(poem[j] \o NL)]

\* the lines one poem contributes (338-342)
poem_lines(poem) == [j \in 1..Len(poem) |-> PyStr(poem[j] \o NL)] \o poem_separator

\* the two nested loops of get_poem_output (335-344)
RECURSIVE poems_output(_)
poems_output(poems_) ==
    IF poems_ = <<>> THEN <<>>
    ELSE poem_lines(Head(poems_)) \o poems_output(Tail(poems_))

\* get_poem_output (334-344): one result for every outcome of the
\* generator's random choices
get_poem_output(text_, syllables_pattern, number_to_generate) ==
    LET r == generate_poems(text_, syllables_pattern, number_to_generate)
        c == <<Call("generate_poems", syllables_pattern)>>
    IN  IF r.ok
        THEN {Result("returned", "", poems_output(ps), c, <<>>, <<>>, ps) : ps \in r.val}
        ELSE {EngineFailure(r.err, c)}

(***************************************************************************)
(* settings.ini and the batch command.                                     *)
(***************************************************************************)
\* the sections of the configuration file, in file order
config_sections == <<"DEFAULT", "parser", "example">>

s_example == <<"e", "x", "a", "m", "p", "l", "e">>
s_command == <<"p", "y", "t", "h", "o", "n", " ", "w", ".", "p", "y", " ",
               "f", ".", "t", "x", "t", " ">>

section_name(section) == IF section = "example" THEN s_example ELSE <<>>

\* get_batch_args_list (55-60): the option values of one section
get_batch_args_list(batch_name) ==
    IF batch_name = "example"
    THEN << <<"i", "n", "f", "o", " ", "-", "t", " ", "g">> >>
    ELSE IF batch_name = "parser"
    THEN << <<"w">>, <<"1">> >>
    ELSE <<>>

\* the stdout of a re-invocation of the tool, as decoded lines
SubprocessOutputs == {<<>>, << <<"1">> >>}

\* the lines one batch entry contributes (257-267)
batch_entry_lines(batch_args, sub) ==
    <<PyStr(s_command \o batch_args)>>
    \o [i \in 1..Len(sub) |-> PyStr(sub[i])]
    \o <<PyStr(<<" ">>)>>

\* the for loop of the batch branch (256-267), for every output of the
\* subprocesses
RECURSIVE batch_outputs(_)
batch_outputs(args_list) ==
    IF args_list = <<>> THEN {<<>>}
    ELSE {batch_entry_lines(Head(args_list), sub) \o rest :
             sub \in SubprocessOutputs, rest \in batch_outputs(Tail(args_list))}

\* the batch -l listing (275-282)
batch_list ==
    LET names == SelectSeq(config_sections, LAMBDA n : n \notin {"DEFAULT", "parser"})
    IN  [i \in 1..Len(names) |-> PyStr(section_name(names[i]))]

(***************************************************************************)
(* get_output (183-283), one operator per command branch.  Each yields the *)
(* set of results the branch can end in.                                   *)
(***************************************************************************)
\* truth value of an optional string or list argument
Truthy(opt) == opt # None /\ opt[1] # <<>>

\* the count branch (214-221)
count_command(text_, a) ==
    LET t == expand_type(a.type)
    IN  IF Truthy(a.count)
        THEN (IF t.ok THEN {get_count_output(text_, t.val, a.count[1])} ELSE {Exit0})
        ELSE IF a.totalcount
        THEN (IF t.ok THEN {get_totalcount_output(text_, t.val, a.show)} ELSE {Exit0})
        ELSE {ReturnNone}

\* the match branch (223-227)
match_command(text_, a) ==
    LET t == expand_type(a.type)
    IN  IF t.ok THEN {get_match_output(text_, t.val, a.patterns, a.show)} ELSE {Exit0}

\* the poem branch (229-240): with none of the three options the name
\* syllables_pattern is unbound at line 240
poem_command(text_, a) ==
    IF a.syllables # None
    THEN get_poem_output(text_, a.syllables[1], a.show)
    ELSE IF a.preset # None
    THEN get_poem_output(text_, get_syllable_pattern(a.preset[1]), a.show)
    ELSE IF a.shortcut # None
    THEN get_poem_output(text_,
                         get_repeat_syllable_pattern(a.shortcut[1][1], a.shortcut[1][2]),
                         a.show)
    ELSE {Result("raised", "UnboundLocalError", <<>>, <<>>, <<>>, <<>>, <<>>)}

\* the info branch (242-249)
info_command(text_, a) ==
    IF a.general THEN {Exit0}
    ELSE IF a.test = Some("g") THEN {get_readability_test_output(text_, a.test[1])}
    ELSE {ReturnNone}

\* the batch branch (251-282).  Popen is given a command string without a
\* shell: the platform either runs it or raises OSError.
batch_command(a) ==
    IF a.run # None /\ a.run[1] # ""
    THEN IF a.run[1] \in Range(config_sections)
         THEN {Result("returned", "", ls, <<>>, <<>>, <<>>, <<>>) :
                  ls \in batch_outputs(get_batch_args_list(a.run[1]))}
              \cup (IF get_batch_args_list(a.run[1]) # <<>>
                    THEN {Result("raised", "OSError", <<>>, <<>>, <<>>, <<>>, <<>>)}
                    ELSE {})
         ELSE {Exit0}
    ELSE IF a.list
    THEN {Result("returned", "", batch_list, <<>>, <<>>, <<>>, <<>>)}
    ELSE {ReturnNone}

(***************************************************************************)
(* Actions.                                                                *)
(***************************************************************************)
Apply(r) ==
    /\ outcome' = r.outcome
    /\ failure' = r.failure
    /\ output_lines' = r.output_lines
    /\ calls' = r.calls
    /\ rank_list' = r.rank_list
    /\ considered' = r.considered
    /\ poems' = r.poems
    /\ pc' = IF r.outcome \in {"returned", "returned_none"} THEN "output" ELSE "done"
    /\ UNCHANGED <<args, text, console, file>>

CountCommand ==
    /\ pc = "get_output" /\ args.command = "count"
    /\ \E r \in count_command(text, args) : Apply(r)

MatchCommand ==
    /\ pc = "get_output" /\ args.command = "match"
    /\ \E r \in match_command(text, args) : Apply(r)

PoemCommand ==
    /\ pc = "get_output" /\ args.command = "poem"
    /\ \E r \in poem_command(text, args) : Apply(r)

InfoCommand ==
    /\ pc = "get_output" /\ args.command = "info"
    /\ \E r \in info_command(text, args) : Apply(r)

BatchCommand ==
    /\ pc = "get_output" /\ args.command = "batch"
    /\ \E r \in batch_command(args) : Apply(r)

\* the formatter applied to a ranking, on its own
FormatRanking ==
    /\ pc = "format"
    /\ Apply(ranked_output(rank_list, args.show, <<>>))

\* the strings writelines accepts before it meets an entry that is not a str
RECURSIVE str_prefix(_)
str_prefix(lines) ==
    IF lines = <<>> \/ Head(lines).type # "str" THEN <<>>
    ELSE <<Head(lines).val>> \o str_prefix(Tail(lines))

\* output_to_console (347-349): print accepts any object; iterating None
\* raises TypeError
OutputToConsole ==
    /\ pc = "output" /\ ~args.output
    /\ IF outcome = "returned_none"
       THEN /\ outcome' = "raised" /\ failure' = "TypeError"
            /\ console' = console
       ELSE /\ outcome' = "printed" /\ failure' = failure
            /\ console' = console \o output_lines
    /\ pc' = "done"
    /\ UNCHANGED <<args, text, output_lines, calls, rank_list, considered, poems, file>>

\* output_to_file (351-353): writelines raises TypeError on None and on the
\* first entry that is not a str
OutputToFile ==
    /\ pc = "output" /\ args.output
    /\ IF outcome = "returned_none"
       THEN /\ outcome' = "raised" /\ failure' = "TypeError"
            /\ file' = file
       ELSE /\ file' = file \o str_prefix(output_lines)
            /\ IF Len(str_prefix(output_lines)) = Len(output_lines)
               THEN outcome' = "written" /\ failure' = failure
               ELSE outcome' = "raised" /\ failure' = "TypeError"
    /\ pc' = "done"
    /\ UNCHANGED <<args, text, output_lines, calls, rank_list, considered, poems, console>>

(***************************************************************************)
(* Initial states: what argparse can hand to get_output.                   *)
(***************************************************************************)
NoArgs ==
    [command |-> "", type |-> "w", show |-> 1, count |-> None, totalcount |-> FALSE,
     patterns |-> <<>>, syllables |-> None, preset |-> None, shortcut |-> None,
     general |-> FALSE, test |-> None, run |-> None, list |-> FALSE, output |-> FALSE]

\* -t is checked against its choices, the default read from settings.ini is
\* not: "x" stands for a TypeOfElement outside the choices
TypeCodes == {"c", "w", "s", "x"}
ShowValues == -1..MaxShow
ElementArgs == {None, Some(<<>>), Some(<<"a">>)}
PatternArgs == {<<"a">>, <<"a", "~", "b">>, <<"z">>}
SyllableValues == -1..MaxSyllables
SyllableLists == SeqsUpTo(SyllableValues, MaxLines) \ {<<>>}
RunArgs == {None, Some("example"), Some("nosuch")}

CountArgs ==
    {[NoArgs EXCEPT !.command = "count", !.type = t, !.show = n, !.count = c,
                    !.totalcount = o, !.output = f] :
        t \in TypeCodes, n \in ShowValues, c \in ElementArgs, o \in BOOLEAN, f \in BOOLEAN}

MatchArgs ==
    {[NoArgs EXCEPT !.command = "match", !.type = t, !.show = n, !.patterns = p,
                    !.output = f] :
        t \in TypeCodes, n \in ShowValues, p \in PatternArgs, f \in BOOLEAN}

\* the three options are mutually exclusive
PoemOptions ==
    {[NoArgs EXCEPT !.command = "poem"]}
    \cup {[NoArgs EXCEPT !.command = "poem", !.syllables = Some(l)] : l \in SyllableLists}
    \cup {[NoArgs EXCEPT !.command = "poem", !.preset = Some(p)] : p \in {"h", "s"}}
    \cup {[NoArgs EXCEPT !.command = "poem", !.shortcut = Some(<<k, m>>)] :
             k \in SyllableValues, m \in -1..MaxLines}

PoemArgs ==
    {[a EXCEPT !.show = n, !.output = f] : a \in PoemOptions, n \in -1..MaxPoems, f \in BOOLEAN}

InfoArgs ==
    {[NoArgs EXCEPT !.command = "info", !.general = g, !.test = t, !.output = f] :
        g \in BOOLEAN, t \in {None, Some("g")}, f \in BOOLEAN}

BatchArgs ==
    {[NoArgs EXCEPT !.command = "batch", !.run = r, !.list = l, !.output = f] :
        r \in RunArgs, l \in BOOLEAN, f \in BOOLEAN}

\* the texts of the dispatch specification: empty, one word, a repeated word
MainTexts == {<<>>, <<"a", ".">>, <<"a", " ", "a", ".">>}

Start(position) ==
    /\ pc = position
    /\ outcome = "running"
    /\ failure = ""
    /\ output_lines = <<>>
    /\ calls = <<>>
    /\ considered = <<>>
    /\ poems = <<>>
    /\ console = <<>>
    /\ file = <<>>

Init ==
    /\ args \in CountArgs \cup MatchArgs \cup PoemArgs \cup InfoArgs \cup BatchArgs
    /\ text \in MainTexts
    /\ rank_list = <<>>
    /\ Start("get_output")

Next ==
    \/ CountCommand
    \/ MatchCommand
    \/ PoemCommand
    \/ InfoCommand
    \/ BatchCommand
    \/ OutputToConsole
    \/ OutputToFile

Spec == Init /\ [][Next]_vars

(***************************************************************************)
(* The formatter over every ranking a Ranker can return: distinct          *)
(* elements, counts in descending order.                                   *)
(***************************************************************************)
RankElements == {<<"a">>, <<"b">>, <<"a", "b">>}
RankCounts == {0, 1, 2, 10}

IsRanking(r) ==
    /\ \A i, j \in 1..Len(r) : i < j => r[i][1] # r[j][1] /\ r[i][2] >= r[j][2]

Rankings == {r \in SeqsUpTo(RankElements \X RankCounts, MaxRankLen) : IsRanking(r)}

InitFormat ==
    /\ args \in {[NoArgs EXCEPT !.command = "match", !.show = n] : n \in ShowValues}
    /\ text = <<>>
    /\ rank_list \in Rankings
    /\ Start("format")

NextFormat == FormatRanking

SpecFormat == InitFormat /\ [][NextFormat]_vars

(***************************************************************************)
(* The total-count ranking over every short text.                          *)
(***************************************************************************)
RankAlphabet == {"a", "A", "b", " ", "."}

InitRanker ==
    /\ args \in {[NoArgs EXCEPT !.command = "count", !.totalcount = TRUE,
                                !.type = t, !.show = n] :
                    t \in {"c", "w", "s"}, n \in {1, MaxShow}}
    /\ text \in SeqsUpTo(RankAlphabet, MaxTextLen)
    /\ rank_list = <<>>
    /\ Start("get_output")

NextRanker == CountCommand

SpecRanker == InitRanker /\ [][NextRanker]_vars

(***************************************************************************)
(* The poem command over every short text and pattern.                     *)
(***************************************************************************)
\* words of one syllable (a, le, ale) and of two (ala, alle)
PoemWords == {<<"a">>, <<"l", "e">>, <<"a", "l", "e">>, <<"a", "l", "a">>,
              <<"a", "l", "l", "e">>}

InitPoem ==
    /\ args \in {[NoArgs EXCEPT !.command = "poem", !.syllables = Some(l), !.show = n] :
                    l \in SeqsUpTo(1..MaxSyllables, MaxLines) \ {<<>>}, n \in 0..MaxPoems}
    /\ text \in {join_words(ws) : ws \in SeqsUpTo(PoemWords, MaxPoemWords)}
    /\ rank_list = <<>>
    /\ Start("get_output")

NextPoem == PoemCommand

SpecPoem == InitPoem /\ [][NextPoem]_vars

(***************************************************************************)
(* Reading a formatted ranking line "<count>: <element>\n" back.           *)
(***************************************************************************)
digit_value(c) == CHOOSE d \in 0..9 : Digits[d + 1] = c

RECURSIVE parse_nat(_)
parse_nat(ds) ==
    IF ds = <<>> THEN 0
    ELSE 10 * parse_nat(SubSeq(ds, 1, Len(ds) - 1)) + digit_value(ds[Len(ds)])

first_colon(s) == CHOOSE i \in 1..Len(s) : s[i] = ":" /\ \A j \in 1..(i - 1) : s[j] # ":"

well_formed_line(line) ==
    /\ line.type = "str"
    /\ ":" \in Range(line.val)
    /\ LET s == line.val
           k == first_colon(s)
       IN  /\ k >= 2
           /\ \A j \in 1..(k - 1) : s[j] \in Range(Digits)
           /\ Len(s) >= k + 2
           /\ s[k + 1] = " "
           /\ s[Len(s)] = "\n"

\* the pair <<element, count>> a line reports
reported(line) ==
    LET s == line.val
        k == first_colon(s)
    IN  <<SubSeq(s, k + 2, Len(s) - 1), parse_nat(SubSeq(s, 1, k - 1))>>

reported_pairs(lines) == [i \in 1..Len(lines) |-> reported(lines[i])]

NonZeroCount(pair) == pair[2] # 0

\* the first min(len(R), N) entries of R; none when N is not positive
shown_prefix(r, n) == SubSeq(r, 1, Min(Len(r), n))

(***************************************************************************)
(* Properties of the formatter (SpecFormat).                               *)
(***************************************************************************)
Formatted == pc # "format"

\* C1, as stated: generate_ranked_list_output never fails and reads exactly
\* the first min(len(R), N) entries of R in rank order; when N is greater
\* than len(R), every entry of R is returned.
C1_AllEntriesReturned ==
    Formatted =>
        /\ outcome = "returned"
        /\ considered = [i \in 1..Min(Len(rank_list), args.show) |-> i]
        /\ args.show > Len(rank_list) =>
               /\ Len(output_lines) = Len(rank_list)
               /\ \A i \in 1..Len(rank_list) :
                      \E k \in 1..Len(output_lines) :
                          well_formed_line(output_lines[k])
                          /\ reported(output_lines[k]) = rank_list[i]

\* C1, amended: generate_ranked_list_output never fails and reads exactly
\* the first min(len(R), N) entries of R in rank order; when N is greater
\* than len(R), every entry of R is read and every entry of R whose count
\* is not zero is returned.
C1_AllNonZeroEntriesReturned ==
    Formatted =>
        /\ outcome = "returned"
        /\ considered = [i \in 1..Min(Len(rank_list), args.show) |-> i]
        /\ args.show > Len(rank_list) =>
               /\ Len(considered) = Len(rank_list)
               /\ \A i \in 1..Len(rank_list) :
                      rank_list[i][2] # 0 =>
                          \E k \in 1..Len(output_lines) :
                              well_formed_line(output_lines[k])
                              /\ reported(output_lines[k]) = rank_list[i]

C1_Witness ==
    /\ Formatted
    /\ args.show > Len(rank_list)
    /\ Len(rank_list) >= 2
    /\ rank_list[1][2] # 0
    /\ rank_list[Len(rank_list)][2] = 0
    /\ Len(output_lines) >= 1

\* C2: no line of the formatted list reports a count of zero, and the lines
\* report exactly the considered entries whose count is not zero, in their
\* original relative order.
C2_ZeroCountsSuppressed ==
    Formatted =>
        /\ \A k \in 1..Len(output_lines) :
               well_formed_line(output_lines[k]) /\ reported(output_lines[k])[2] # 0
        /\ reported_pairs(output_lines)
               = SelectSeq(shown_prefix(rank_list, args.show), NonZeroCount)

C2_Witness ==
    /\ Formatted
    /\ Len(output_lines) >= 2
    /\ \E i \in 1..Len(considered) : rank_list[considered[i]][2] = 0

(***************************************************************************)
(* Properties of the total-count ranking (SpecRanker).                     *)
(***************************************************************************)
Ranked == pc # "get_output" /\ outcome = "returned" /\ args.totalcount

tokens_of_text == tokenize(text, expand_type(args.type).val)

first_appearance(v) ==
    CHOOSE i \in 1..Len(tokens_of_text) :
        tokens_of_text[i] = v /\ \A j \in 1..(i - 1) : tokens_of_text[j] # v

\* C8: the total-count ranking is sorted by count, descending; elements
\* with equal counts are in order of first appearance in the text; the
\* formatted output reports the shown entries in the same order.
C8_RankingOrder ==
    Ranked =>
        /\ \A i, j \in 1..Len(rank_list) :
               i < j =>
                   /\ rank_list[i][2] >= rank_list[j][2]
                   /\ rank_list[i][2] = rank_list[j][2] =>
                          first_appearance(rank_list[i][1]) < first_appearance(rank_list[j][1])
        /\ \A k \in 1..Len(output_lines) : well_formed_line(output_lines[k])
        /\ reported_pairs(output_lines) = shown_prefix(rank_list, args.show)

C8_Witness ==
    /\ Ranked
    /\ Len(output_lines) >= 3
    /\ rank_list[1][2] > rank_list[2][2]
    /\ rank_list[2][2] = rank_list[3][2]
    /\ first_appearance(rank_list[1][1]) > first_appearance(rank_list[2][1])

\* C9: the total-count ranking lists every distinct value of the text
\* exactly once, and its counts add up to the number of tokens.
C9_RankingIsComplete ==
    Ranked =>
        /\ \A i, j \in 1..Len(rank_list) : i # j => rank_list[i][1] # rank_list[j][1]
        /\ {rank_list[i][1] : i \in 1..Len(rank_list)} = Range(tokens_of_text)
        /\ SumSeq([i \in 1..Len(rank_list) |-> rank_list[i][2]]) = Len(tokens_of_text)

C9_Witness ==
    /\ Ranked
    /\ Len(rank_list) >= 2
    /\ Len(tokens_of_text) > Len(rank_list)

(***************************************************************************)
(* Properties of the poem command (SpecPoem).                              *)
(***************************************************************************)
Generated == pc # "get_output" /\ outcome = "returned" /\ args.command = "poem"

\* the syllable estimate of a line: the sum over its words
line_syllables(line) ==
    LET ws == tokenize(line, "words")
    IN  SumSeq([i \in 1..Len(ws) |-> estimate_syllables(ws[i])])

\* some multiset of the syllable counts of the vocabulary adds up to target
RECURSIVE reachable(_, _)
reachable(counts, target) ==
    \/ target = 0
    \/ \E c \in counts : c <= target /\ reachable(counts, target - c)

satisfiable(text_, pattern) ==
    LET counts == {estimate_syllables(w) : w \in Range(tokenize(text_, "words"))}
    IN  \A i \in 1..Len(pattern) : reachable(counts, pattern[i])

\* C7: for a pattern the vocabulary can satisfy and a count n, the generator
\* returns n poems of len(pattern) lines, and the syllable estimate of
\* line i of every poem is pattern[i], whatever the random choices.
C7_PoemsMatchPattern ==
    (pc # "get_output" /\ args.command = "poem" /\ args.syllables # None
     /\ args.show >= 0 /\ satisfiable(text, args.syllables[1])) =>
        /\ outcome = "returned"
        /\ Len(poems) = args.show
        /\ \A k \in 1..Len(poems) :
               /\ Len(poems[k]) = Len(args.syllables[1])
               /\ \A i \in 1..Len(poems[k]) :
                      line_syllables(poems[k][i]) = args.syllables[1][i]

C7_Witness ==
    /\ Generated
    /\ Len(poems) = 2
    /\ Len(poems[1]) = 2
    /\ \E i \in 1..2 : " " \in Range(poems[2][i])
    /\ poems[1] # poems[2]
    /\ \E w \in Range(tokenize(text, "words")) : estimate_syllables(w) >= 2

\* position in the output list of the entry before poem k's first line
poem_offset(k) == SumSeq([m \in 1..(k - 1) |-> Len(poems[m]) + 1])

\* C10: get_poem_output emits the poems in the order returned, the lines of
\* each in order and followed by a newline, one separator line after each
\* poem and nothing else.
C10_PoemOutputLayout ==
    Generated =>
        /\ Len(output_lines) = SumSeq([k \in 1..Len(poems) |-> Len(poems[k]) + 1])
        /\ \A k \in 1..Len(poems) :
               /\ \A j \in 1..Len(poems[k]) :
                      output_lines[poem_offset(k) + j] = PyStr(poems[k][j] \o NL)
               /\ output_lines[poem_offset(k) + Len(poems[k]) + 1] = PyStr(NL)

C10_Witness ==
    /\ Generated
    /\ Len(poems) = 2
    /\ Len(poems[1]) = 2
    /\ poems[1] # poems[2]
    /\ poems[1][1] # poems[1][2]

(***************************************************************************)
(* Properties of the dispatch (Spec).                                      *)
(***************************************************************************)
\* C3: whenever get_output hands its result to main, exactly one engine
\* operation has been called and the result is a list of output lines.
C3_OneEngineCallAndLines ==
    pc = "output" => Len(calls) = 1 /\ outcome = "returned"

\* C4: every entry of the list handed to output_to_console or
\* output_to_file is a str.
C4_EveryEntryIsStr ==
    (pc = "output" /\ outcome = "returned") =>
        \A i \in 1..Len(output_lines) : output_lines[i].type = "str"

\* C5: no error condition ends the process from inside the dispatch, and
\* none is reported with the exit status of success.
C5_NoExitInsideDispatch == outcome # "exit0"

\* C6: the poem command never leaves its syllable pattern undefined, and
\* the pattern passed to generate_poems consists of positive integers only.
C6_PatternIsPositive ==
    /\ failure # "UnboundLocalError"
    /\ \A i \in 1..Len(calls) :
           calls[i].op = "generate_poems" =>
               \A j \in 1..Len(calls[i].pattern) : calls[i].pattern[j] > 0

====
